---- MODULE Spec2Model ----
(***************************************************************************)
(* Exact pattern matching: the Z algorithm, the Boyer-Moore preprocessing  *)
(* tables, the reversed Boyer-Moore scan (boyer_moore.py) and the          *)
(* bit-vector matcher (bitvector.py).                                      *)
(*                                                                         *)
(* A Python str is a sequence of code points (ord values); a Python list   *)
(* is a sequence, and Python's 0-based index k is position k + 1 here      *)
(* (operator At).  A call that raises returns Raise; a call that returns v *)
(* returns Ok(v).                                                          *)
(***************************************************************************)
EXTENDS Integers, Sequences, FiniteSets

\* ------------------------------------------------------------------ bounds
MaxTextLen == 5
MaxPatLen == 3
MaxStrLen == 6

\* ------------------------------------------------------- program constants
ASCII_SIZE == 128
NAN == -1

\* Code points the inputs are drawn from: 'A', 'B' and one code point past
\* the table width (chr(128)).
InRange == {65, 66}
OutOfRange == {ASCII_SIZE}
Symbols == InRange \cup OutOfRange

\* ------------------------------------------------------------ Python values
At(list, k) == list[k + 1]

Reverse(list) == [k \in 1..Len(list) |-> list[Len(list) + 1 - k]]

Max(a, b) == IF a >= b THEN a ELSE b

Ok(v) == [ok |-> TRUE, val |-> v]

Raise == [ok |-> FALSE, val |-> <<>>]

RECURSIVE StrsOfLen(_, _)
StrsOfLen(alphabet, n) ==
  IF n = 0 THEN {<<>>}
  ELSE {Append(s, c) : s \in StrsOfLen(alphabet, n - 1), c \in alphabet}

StrsUpTo(alphabet, n) == UNION {StrsOfLen(alphabet, k) : k \in 0..n}

\* --------------------------------------------------------------- z_algorithm
\* The explicit comparison loop: for j in range(z_array[i], len(text) - 1).
\* zi is z_array[i]; j and zi advance together.
\* (Faulty variant: the range ends one index early, len(text) - 2.)
RECURSIVE ZExtendShortRange(_, _, _, _)
ZExtendShortRange(text, i, zi, j) ==
  IF j >= Len(text) - 2 THEN zi
  ELSE IF i + zi >= Len(text) THEN zi
  ELSE IF At(text, j) = At(text, i + zi)
       THEN ZExtendShortRange(text, i, zi + 1, j + 1)
       ELSE zi

RECURSIVE ZExtend(_, _, _, _)
ZExtend(text, i, zi, j) ==
  IF j >= Len(text) - 1 THEN zi
  ELSE IF i + zi >= Len(text) THEN zi
  ELSE IF At(text, j) = At(text, i + zi)
       THEN ZExtend(text, i, zi + 1, j + 1)
       ELSE zi

\* One iteration of "for i in range(1, len(text))" on st = [l, r, z_array].
ZIter(text, st, i) ==
  LET in_box == i <= st.r
      offset_i == i - st.l
      offset_i_zbox == At(st.z_array, offset_i)
      remaining_length == st.r - i + 1
  IN  IF in_box /\ offset_i_zbox = 0
        THEN st
      ELSE IF in_box /\ offset_i_zbox < remaining_length
        THEN [st EXCEPT !.z_array[i + 1] = offset_i_zbox]
      ELSE IF in_box /\ offset_i_zbox > remaining_length
        THEN [st EXCEPT !.z_array[i + 1] = remaining_length]
      ELSE
        LET z0 == IF in_box THEN offset_i_zbox ELSE At(st.z_array, i)
            zi == ZExtend(text, i, z0, z0)
            mismatch_point == i + zi
        IN  IF zi # 0 /\ mismatch_point > st.r
              THEN [l |-> i, r |-> mismatch_point - 1,
                    z_array |-> [st.z_array EXCEPT ![i + 1] = zi]]
              ELSE [st EXCEPT !.z_array[i + 1] = zi]

RECURSIVE ZLoop(_, _, _)
ZLoop(text, st, i) ==
  IF i >= Len(text) THEN st ELSE ZLoop(text, ZIter(text, st, i), i + 1)

\* z_array[0] = NAN raises IndexError on the empty list.
z_algorithm(text) ==
  IF Len(text) = 0 THEN Raise
  ELSE Ok(ZLoop(text,
                [l |-> 0, r |-> 0,
                 z_array |-> [k \in 1..Len(text) |-> IF k = 1 THEN NAN ELSE 0]],
                1).z_array)

\* ---------------------------------------------------------- extended_bad_char
RECURSIVE BadCharRows(_, _, _)
BadCharRows(pat, ext_bad_char_arr, i) ==
  IF i >= Len(pat) THEN Ok(ext_bad_char_arr)
  ELSE IF At(pat, i - 1) >= ASCII_SIZE THEN Raise
  ELSE BadCharRows(pat,
         Append(ext_bad_char_arr,
                [At(ext_bad_char_arr, i - 1) EXCEPT ![At(pat, i - 1) + 1] = i - 1]),
         i + 1)

extended_bad_char(pat) ==
  BadCharRows(pat, <<[c \in 1..ASCII_SIZE |-> NAN]>>, 1)

reversed_ext_bad_char(pat) ==
  LET reversed_bad_char_arr == extended_bad_char(Reverse(pat))
  IN  IF reversed_bad_char_arr.ok THEN Ok(Reverse(reversed_bad_char_arr.val))
      ELSE Raise

\* ---------------------------------------------------------------- good_suffix
\* The slot written for position i: j = m - z_suffix_array[i].
\* (Faulty variant: the slot one lower, m - z_suffix_array[i] - 1.)
GoodSuffixSlotOffByOne(m, zsuf) == m - zsuf - 1

GoodSuffixSlot(m, zsuf) == m - zsuf

RECURSIVE GoodSuffixLoop(_, _, _, _)
GoodSuffixLoop(m, z_suffix_array, gs, i) ==
  IF i >= m - 1 THEN gs
  ELSE GoodSuffixLoop(m, z_suffix_array,
         [gs EXCEPT ![GoodSuffixSlot(m, At(z_suffix_array, i)) + 1] = i], i + 1)

good_suffix(pat) ==
  LET z == z_algorithm(Reverse(pat))
      m == Len(pat)
  IN  IF ~z.ok THEN Raise
      ELSE Ok(GoodSuffixLoop(m, Reverse(z.val), [k \in 1..(m + 1) |-> NAN], 0))

reversed_good_suffix(pat) ==
  LET good_prefix == good_suffix(Reverse(pat))
  IN  IF good_prefix.ok THEN Ok(Reverse(good_prefix.val)) ELSE Raise

\* ------------------------------------------------------------- matched_prefix
RECURSIVE MatchedPrefixLoop(_, _, _, _)
MatchedPrefixLoop(m, z_matched_array, mp, i) ==
  IF i < 0 THEN mp
  ELSE MatchedPrefixLoop(m, z_matched_array,
         [mp EXCEPT ![i + 1] = IF i + At(z_matched_array, i) = m
                                 THEN At(z_matched_array, i)
                                 ELSE At(mp, i + 1)],
         i - 1)

matched_prefix(pat) ==
  LET z == z_algorithm(pat)
      m == Len(pat)
  IN  IF ~z.ok THEN Raise
      ELSE Ok([MatchedPrefixLoop(m, z.val, [k \in 1..(m + 1) |-> 0], m - 1)
                 EXCEPT ![1] = m])

reversed_matched_prefix(pat) ==
  LET reversed_mp_arr == matched_prefix(Reverse(pat))
  IN  IF reversed_mp_arr.ok THEN Ok(Reverse(reversed_mp_arr.val)) ELSE Raise

\* ---------------------------------------------------- reversed_boyer_moore
\* if pattern_pointer == start: pattern_pointer = stop + 1
SkipMemo(pattern_pointer, start, stop) ==
  IF pattern_pointer = start THEN stop + 1 ELSE pattern_pointer

\* shift_amt = m - matched_prefix_arr[-2]
\* (Faulty variants: a shift by the whole pattern, which ignores the matched
\* prefix; and the index -1 in place of -2, which reads the entry m.)
MatchShiftWholePattern(m, matched_prefix_arr) == m

MatchShiftLastEntry(m, matched_prefix_arr) ==
  m - At(matched_prefix_arr, Len(matched_prefix_arr) - 1)

MatchShift(m, matched_prefix_arr) ==
  m - At(matched_prefix_arr, Len(matched_prefix_arr) - 2)

\* The memo after a full match.
MatchMemo(m, matched_prefix_arr) ==
  IF At(matched_prefix_arr, Len(matched_prefix_arr) - 2) # 0
    THEN <<MatchShift(m, matched_prefix_arr), m - 1>>
    ELSE <<NAN, NAN>>

\* bc_shift = m - 1 - bc_index - pattern_pointer
\* (Faulty variant: the mirrored index taken as m - bc_index, one too far.)
BcShiftOffByOne(m, bc_index, pattern_pointer) == m - bc_index - pattern_pointer

BcShift(m, bc_index, pattern_pointer) == m - 1 - bc_index - pattern_pointer

GsShift(m, good_suffix_arr, matched_prefix_arr, pattern_pointer) ==
  IF At(good_suffix_arr, pattern_pointer) = NAN
    THEN m - At(matched_prefix_arr, pattern_pointer)
    ELSE m - 1 - At(good_suffix_arr, pattern_pointer)

\* The memo after a mismatch at pattern_pointer (the if / elif / else chain).
MismatchMemo(m, pattern_pointer, bc_index, bc_shift, gs_shift, gs_entry) ==
  IF (pattern_pointer - 1 = NAN /\ bc_shift = gs_shift) \/ bc_shift > gs_shift
    THEN IF bc_index = NAN THEN <<NAN, NAN>>
         ELSE <<m - 1 - bc_index, m - 1 - bc_index>>
  ELSE IF pattern_pointer - 1 # NAN
    THEN IF gs_entry = NAN THEN <<gs_shift, m - 1>>
         ELSE <<gs_shift,
                gs_shift + pattern_pointer - 1
                  + (IF bc_shift = gs_shift THEN 1 ELSE 0)>>
  ELSE <<NAN, NAN>>

\* -------------------------------------------------------- bitvector_pat_match
\* delta[j] = text[i] != pat[m-1-j]
\* (Faulty variant: pat[j], the pattern not mirrored.)
DeltaUnmirrored(c, pat) ==
  [k \in 1..Len(pat) |-> IF c # At(pat, k - 1) THEN 1 ELSE 0]

Delta(c, pat) ==
  [k \in 1..Len(pat) |-> IF c # At(pat, Len(pat) - 1 - (k - 1)) THEN 1 ELSE 0]

\* bitarray << 1: every bit moves one index down, a 0 enters at the last index.
ShiftLeft(bits) ==
  [k \in 1..Len(bits) |-> IF k < Len(bits) THEN bits[k + 1] ELSE 0]

BitOr(a, b) == [k \in 1..Len(a) |-> IF a[k] = 1 \/ b[k] = 1 THEN 1 ELSE 0]

\* The position appended on a match at text index i.
ReportedPosition(i, m) == (i + 1) - m + 1

\* One iteration of "for i in range(n)" on st = [bitvector, occurrences];
\* bitvector[0] raises IndexError when the pattern is empty.
BVIterate(st, text, pat, i) ==
  LET bv == BitOr(ShiftLeft(st.bitvector), Delta(At(text, i), pat))
  IN  IF Len(bv) = 0 THEN Raise
      ELSE Ok([bitvector |-> bv,
               occurrences |-> IF At(bv, 0) = 0
                                 THEN Append(st.occurrences,
                                             ReportedPosition(i, Len(pat)))
                                 ELSE st.occurrences])

BVStart(pat) ==
  [bitvector |-> [k \in 1..Len(pat) |-> 1], occurrences |-> <<>>]

RECURSIVE BVLoop(_, _, _, _)
BVLoop(st, text, pat, i) ==
  IF i >= Len(text) THEN Ok(st.occurrences)
  ELSE LET step == BVIterate(st, text, pat, i)
       IN  IF step.ok THEN BVLoop(step.val, text, pat, i + 1) ELSE Raise

bitvector_pat_match(text, pat) == BVLoop(BVStart(pat), text, pat, 0)

\* ------------------------------------------------------------------- state
VARIABLES
  text, pat,                                   \* the two input strings
  pc, err,                                     \* reversed_boyer_moore: position, raise site
  bad_char_arr, good_suffix_arr, matched_prefix_arr,
  occurrence, i, start, stop,
  search_index_on_text, pattern_pointer, shift_amt,
  bpc, bitvector, bv_i, occurrences,           \* bitvector_pat_match
  S, z_res, gs_res, mp_res                     \* calls of the preprocessing functions

bm_vars == <<pc, err, bad_char_arr, good_suffix_arr, matched_prefix_arr,
             occurrence, i, start, stop, search_index_on_text,
             pattern_pointer, shift_amt>>

bv_vars == <<bpc, bitvector, bv_i, occurrences>>

pre_vars == <<S, z_res, gs_res, mp_res>>

vars == <<text, pat, bm_vars, bv_vars, pre_vars>>

n == Len(text)

m == Len(pat)

NotCalled == [called |-> FALSE, ok |-> FALSE, val |-> <<>>]

Returned(res) == [called |-> TRUE, ok |-> res.ok, val |-> res.val]

\* Both matchers at their entry, on the same text and pattern.
MatchersAtEntry ==
  /\ pc = "start" /\ err = "none"
  /\ bad_char_arr = <<>> /\ good_suffix_arr = <<>> /\ matched_prefix_arr = <<>>
  /\ occurrence = <<>> /\ i = NAN /\ start = NAN /\ stop = NAN
  /\ search_index_on_text = NAN /\ pattern_pointer = 0 /\ shift_amt = 0
  /\ bpc = "loop" /\ bitvector = BVStart(pat).bitvector
  /\ bv_i = 0 /\ occurrences = <<>>

PreNotCalled == z_res = NotCalled /\ gs_res = NotCalled /\ mp_res = NotCalled

Init ==
  /\ text \in StrsUpTo(Symbols, MaxTextLen)
  /\ pat \in StrsUpTo(Symbols, MaxPatLen)
  /\ MatchersAtEntry
  /\ S = <<>> /\ PreNotCalled

InitPre ==
  /\ S \in StrsUpTo(InRange, MaxStrLen)
  /\ PreNotCalled
  /\ text = <<>> /\ pat = <<>>
  /\ MatchersAtEntry

\* ------------------------------------------- actions: reversed_boyer_moore
\* Lines 267-277: the three tables, then occurrence, i, start, stop.
Preprocess ==
  /\ pc = "start"
  /\ LET bc == reversed_ext_bad_char(pat)
         gs == reversed_good_suffix(pat)
         mp == reversed_matched_prefix(pat)
     IN  IF bc.ok /\ gs.ok /\ mp.ok
           THEN /\ bad_char_arr' = bc.val
                /\ good_suffix_arr' = gs.val
                /\ matched_prefix_arr' = mp.val
                /\ i' = n - 1
                /\ pc' = "align"
                /\ err' = err
           ELSE /\ pc' = "error"
                /\ err' = "preprocess"
                /\ UNCHANGED <<bad_char_arr, good_suffix_arr, matched_prefix_arr, i>>
  /\ UNCHANGED <<text, pat, occurrence, start, stop, search_index_on_text,
                 pattern_pointer, shift_amt, bv_vars, pre_vars>>

\* Lines 280-286: the next alignment fits in the text.
AlignStart ==
  /\ pc = "align"
  /\ i - (m - 1) >= 0
  /\ search_index_on_text' = i - (m - 1)
  /\ pattern_pointer' = 0
  /\ pc' = "scan"
  /\ UNCHANGED <<text, pat, err, bad_char_arr, good_suffix_arr, matched_prefix_arr,
                 occurrence, i, start, stop, shift_amt, bv_vars, pre_vars>>

\* Lines 280-283 and 359: the pattern exceeded the text; return occurrence.
ScanReturn ==
  /\ pc = "align"
  /\ i - (m - 1) < 0
  /\ search_index_on_text' = i - (m - 1)
  /\ pc' = "done"
  /\ UNCHANGED <<text, pat, err, bad_char_arr, good_suffix_arr, matched_prefix_arr,
                 occurrence, i, start, stop, pattern_pointer, shift_amt,
                 bv_vars, pre_vars>>

\* Lines 290-306: the pointer (after the memo skip) is m.
FullMatch ==
  /\ pc = "scan"
  /\ LET p == SkipMemo(pattern_pointer, start, stop)
         memo == MatchMemo(m, matched_prefix_arr)
     IN  /\ p = m
         /\ pattern_pointer' = p
         /\ occurrence' = Append(occurrence, search_index_on_text + 1)
         /\ shift_amt' = MatchShift(m, matched_prefix_arr)
         /\ start' = memo[1]
         /\ stop' = memo[2]
         /\ i' = i - MatchShift(m, matched_prefix_arr)
  /\ pc' = "align"
  /\ UNCHANGED <<text, pat, err, bad_char_arr, good_suffix_arr, matched_prefix_arr,
                 search_index_on_text, bv_vars, pre_vars>>

\* Line 309: text[search_index_on_text + pattern_pointer] or pat[pattern_pointer]
\* is read past the end of its string.
CompareRaises ==
  /\ pc = "scan"
  /\ LET p == SkipMemo(pattern_pointer, start, stop)
     IN  /\ p # m
         /\ (search_index_on_text + p >= n \/ p >= m)
         /\ pattern_pointer' = p
  /\ pc' = "error"
  /\ err' = "compare"
  /\ UNCHANGED <<text, pat, bad_char_arr, good_suffix_arr, matched_prefix_arr,
                 occurrence, i, start, stop, search_index_on_text, shift_amt,
                 bv_vars, pre_vars>>

\* Lines 309-311: the symbols agree.
CompareEqual ==
  /\ pc = "scan"
  /\ LET p == SkipMemo(pattern_pointer, start, stop)
     IN  /\ p < m
         /\ search_index_on_text + p < n
         /\ At(text, search_index_on_text + p) = At(pat, p)
         /\ pattern_pointer' = p + 1
  /\ UNCHANGED <<text, pat, pc, err, bad_char_arr, good_suffix_arr,
                 matched_prefix_arr, occurrence, i, start, stop,
                 search_index_on_text, shift_amt, bv_vars, pre_vars>>

\* Line 318: the mismatching text symbol indexes past the bad-character row.
BadCharRaises ==
  /\ pc = "scan"
  /\ LET p == SkipMemo(pattern_pointer, start, stop)
     IN  /\ p < m
         /\ search_index_on_text + p < n
         /\ At(text, search_index_on_text + p) # At(pat, p)
         /\ At(text, search_index_on_text + p) >= ASCII_SIZE
         /\ pattern_pointer' = p
  /\ pc' = "error"
  /\ err' = "bad_char"
  /\ UNCHANGED <<text, pat, bad_char_arr, good_suffix_arr, matched_prefix_arr,
                 occurrence, i, start, stop, search_index_on_text, shift_amt,
                 bv_vars, pre_vars>>

\* Lines 313-358: the symbols differ; shift and set the memo.
Mismatch ==
  /\ pc = "scan"
  /\ LET p == SkipMemo(pattern_pointer, start, stop)
     IN  /\ p < m
         /\ search_index_on_text + p < n
         /\ At(text, search_index_on_text + p) # At(pat, p)
         /\ At(text, search_index_on_text + p) < ASCII_SIZE
         /\ LET char_mismatch == At(text, search_index_on_text + p)
                bc_index == At(At(bad_char_arr, p), char_mismatch)
                bc_shift == BcShift(m, bc_index, p)
                gs_shift == GsShift(m, good_suffix_arr, matched_prefix_arr, p)
                memo == MismatchMemo(m, p, bc_index, bc_shift, gs_shift,
                                     At(good_suffix_arr, p))
            IN  /\ shift_amt' = Max(bc_shift, gs_shift)
                /\ start' = memo[1]
                /\ stop' = memo[2]
                /\ i' = i - Max(bc_shift, gs_shift)
         /\ pattern_pointer' = p
  /\ pc' = "align"
  /\ UNCHANGED <<text, pat, err, bad_char_arr, good_suffix_arr, matched_prefix_arr,
                 occurrence, search_index_on_text, bv_vars, pre_vars>>

Next ==
  \/ Preprocess
  \/ AlignStart
  \/ ScanReturn
  \/ FullMatch
  \/ CompareRaises
  \/ CompareEqual
  \/ BadCharRaises
  \/ Mismatch

Spec == Init /\ [][Next]_vars

\* -------------------------------------------- actions: bitvector_pat_match
\* Lines 30-41, non-empty pattern: delta, shift-OR, test of bit 0, append.
BVIter ==
  /\ bpc = "loop"
  /\ bv_i < n
  /\ BVIterate([bitvector |-> bitvector, occurrences |-> occurrences],
               text, pat, bv_i).ok
  /\ LET step == BVIterate([bitvector |-> bitvector, occurrences |-> occurrences],
                           text, pat, bv_i).val
     IN  /\ bitvector' = step.bitvector
         /\ occurrences' = step.occurrences
  /\ bv_i' = bv_i + 1
  /\ UNCHANGED <<text, pat, bpc, bm_vars, pre_vars>>

\* Lines 30-39, empty pattern: bitvector[0] raises IndexError.
BVRaises ==
  /\ bpc = "loop"
  /\ bv_i < n
  /\ ~BVIterate([bitvector |-> bitvector, occurrences |-> occurrences],
                text, pat, bv_i).ok
  /\ bpc' = "error"
  /\ UNCHANGED <<text, pat, bitvector, bv_i, occurrences, bm_vars, pre_vars>>

\* Line 43: the loop is over; return occurrences.
BVReturn ==
  /\ bpc = "loop"
  /\ bv_i >= n
  /\ bpc' = "done"
  /\ UNCHANGED <<text, pat, bitvector, bv_i, occurrences, bm_vars, pre_vars>>

NextBV == BVIter \/ BVRaises \/ BVReturn

SpecBV == Init /\ [][NextBV]_vars

\* The two matchers, each run on the same text and pattern, in any interleaving.
NextBoth == Next \/ NextBV

SpecBoth == Init /\ [][NextBoth]_vars

\* ------------------------------- actions: calls of the preprocessing functions
CallZ ==
  /\ ~z_res.called
  /\ z_res' = Returned(z_algorithm(S))
  /\ UNCHANGED <<text, pat, bm_vars, bv_vars, S, gs_res, mp_res>>

CallGoodSuffix ==
  /\ ~gs_res.called
  /\ gs_res' = Returned(good_suffix(S))
  /\ UNCHANGED <<text, pat, bm_vars, bv_vars, S, z_res, mp_res>>

CallMatchedPrefix ==
  /\ ~mp_res.called
  /\ mp_res' = Returned(matched_prefix(S))
  /\ UNCHANGED <<text, pat, bm_vars, bv_vars, S, z_res, gs_res>>

NextPre == CallZ \/ CallGoodSuffix \/ CallMatchedPrefix

SpecPre == InitPre /\ [][NextPre]_vars

\* ------------------------------------------------------------ properties
Range(list) == {list[k] : k \in 1..Len(list)}

InAlphabet(str) == \A k \in 1..Len(str) : str[k] < ASCII_SIZE

\* The pattern p occurs in the text t at the 0-based index s.
OccursAt(t, p, s) ==
  /\ s >= 0
  /\ s + Len(p) <= Len(t)
  /\ \A k \in 0..(Len(p) - 1) : At(t, s + k) = At(p, k)

\* The 0-based starts of the occurrences of p that lie within the first k
\* symbols of t: what a brute-force scan of that prefix finds.
BruteForce(t, p, k) == {s \in 0..(k - Len(p)) : OccursAt(t, p, s)}

StrictlyAscending(list) ==
  \A a, b \in 1..Len(list) : a < b => list[a] < list[b]

StrictlyDescending(list) ==
  \A a, b \in 1..Len(list) : a < b => list[a] > list[b]

\* An alignment has just ended: the scan shifted the cursor.
Shifted == pc = "scan" /\ pc' = "align"

\* C1: for a non-empty pattern and a text over 0..127, reversed_boyer_moore
\* returns normally, and what it returns holds exactly the 0-based starts of
\* the occurrences of the pattern in the text, each once.
C1_ReturnsZeroBasedOccurrences ==
  (m >= 1 /\ InAlphabet(text) /\ InAlphabet(pat)) =>
    /\ pc # "error"
    /\ pc = "done" =>
         /\ Range(occurrence) = BruteForce(text, pat, n)
         /\ Len(occurrence) = Cardinality(BruteForce(text, pat, n))

\* C2 (as claimed): for a non-empty pattern, after each iteration of
\* bitvector_pat_match bit 0 of the state vector is 0 exactly when the pattern
\* ends at the text position just read, and the positions appended so far are
\* the 0-based starts (i - m + 1) of the occurrences read so far, in
\* ascending order.
C2_AppendsZeroBasedStart ==
  (m >= 1 /\ bpc # "error") =>
    /\ bv_i >= 1 => (At(bitvector, 0) = 0 <=> OccursAt(text, pat, bv_i - m))
    /\ StrictlyAscending(occurrences)
    /\ Range(occurrences) = BruteForce(text, pat, bv_i)

\* C2 (amended): as above, but the position appended is the 1-based start
\* i - m + 2, so the list returned is the brute-force list of 1-based starts.
C2_AppendsOneBasedStart ==
  (m >= 1 /\ bpc # "error") =>
    /\ bv_i >= 1 => (At(bitvector, 0) = 0 <=> OccursAt(text, pat, bv_i - m))
    /\ StrictlyAscending(occurrences)
    /\ Range(occurrences) = {s + 1 : s \in BruteForce(text, pat, bv_i)}

\* C2 witness: the matcher returned two overlapping occurrences of a pattern
\* of two or more symbols.
C2_Witness ==
  /\ bpc = "done"
  /\ m >= 2
  /\ \E a \in 1..Len(occurrences) :
       a + 1 <= Len(occurrences) /\ occurrences[a + 1] - occurrences[a] < m

\* C3 (as claimed): at every point of the reversed_boyer_moore scan the
\* positions reported so far are strictly ascending, and the list returned is
\* element for element the list bitvector_pat_match returns.
C3_AscendingSameAsBitVector ==
  /\ StrictlyAscending(occurrence)
  /\ pc = "done" =>
       /\ bitvector_pat_match(text, pat).ok
       /\ occurrence = bitvector_pat_match(text, pat).val

\* C3 (amended): at every point of the scan the positions reported so far are
\* strictly descending, and the list returned is the list
\* bitvector_pat_match returns, reversed.
C3_DescendingReverseOfBitVector ==
  /\ StrictlyDescending(occurrence)
  /\ pc = "done" =>
       /\ bitvector_pat_match(text, pat).ok
       /\ occurrence = Reverse(bitvector_pat_match(text, pat).val)

\* C3 witness: the scan returned at least two occurrences.
C3_Witness == pc = "done" /\ Len(occurrence) >= 2

\* C4: for a string S of length L >= 1, z_algorithm(S) returns an array of
\* length L whose index 0 holds the sentinel and whose every other entry z[i]
\* is the length of the longest prefix of S that also starts at i:
\* S[0..z[i]) = S[i..i+z[i]) and i + z[i] = L or S[z[i]] # S[i+z[i]].
C4_ZArrayIsLongestPrefixMatch ==
  (z_res.called /\ Len(S) >= 1) =>
    /\ z_res.ok
    /\ Len(z_res.val) = Len(S)
    /\ At(z_res.val, 0) = NAN
    /\ \A a \in 1..(Len(S) - 1) :
         LET z == At(z_res.val, a)
         IN  /\ z >= 0
             /\ a + z <= Len(S)
             /\ \A k \in 0..(z - 1) : At(S, k) = At(S, a + k)
             /\ (a + z = Len(S) \/ At(S, z) # At(S, a + z))

\* C4 witness: z_algorithm returned an array with an entry of 2 or more that
\* is ended by a differing symbol, and a later non-zero entry inside that
\* entry's box.
C4_Witness ==
  /\ z_res.called /\ z_res.ok
  /\ \E a \in 1..(Len(S) - 1) :
       /\ At(z_res.val, a) >= 2
       /\ a + At(z_res.val, a) < Len(S)
       /\ \E b \in (a + 1)..(a + At(z_res.val, a) - 1) : At(z_res.val, b) >= 1

\* A natural number that bounds the steps the scan has left: W steps per
\* cursor value, less the pointer within an alignment.
ScanVariant ==
  LET W == m + 3
  IN  CASE pc = "start" -> (n + 2) * W
        [] pc = "align" -> (i + 2) * W
        [] pc = "scan"  -> (i + 2) * W - 1 - pattern_pointer
        [] OTHER        -> 0

\* C5: whenever an alignment of the Boyer-Moore scan ends, by a full match or
\* by a mismatch, the shift amount is at least 1 and the cursor i moves left
\* by it; hence the scan terminates: every step of the scan strictly
\* decreases a natural number (the cursor, then the steps left in the
\* alignment), until the scan stops.
C5_ShiftAtLeastOneAndScanStops ==
  [][/\ Shifted => (shift_amt' >= 1 /\ i' = i - shift_amt' /\ i' < i)
     /\ ScanVariant >= 0
     /\ ScanVariant' >= 0
     /\ ScanVariant' < ScanVariant]_vars

\* C5 witness: a scan that reported an occurrence has run the cursor off the
\* left end of the text, its last shift being 2 or more.
C5_Witness ==
  /\ pc = "done"
  /\ occurrence # <<>>
  /\ shift_amt >= 2
  /\ search_index_on_text < 0

\* C6: an empty pattern is rejected by both matchers, for every text: neither
\* returns an occurrence sequence, and the error comes before any scan
\* iteration (no text symbol read, no alignment examined).
C6_EmptyPatternRejected ==
  m = 0 =>
    /\ pc # "done"
    /\ bpc # "done"
    /\ pc = "error" => err = "preprocess"
    /\ bpc = "error" => bv_i = 0

\* C7: when the pattern or the text holds a symbol of code 128 or more,
\* reversed_boyer_moore never returns normally, and the only error it ends
\* with is one raised before the first alignment (never one raised by a read
\* in the middle of the scan).
C7_OutOfRangeSymbolRejectedUpFront ==
  ~(InAlphabet(text) /\ InAlphabet(pat)) =>
    /\ pc # "done"
    /\ pc = "error" => err = "preprocess"

\* C8 (as claimed): for a pattern of length m >= 1, good_suffix returns an
\* array of length m + 1 whose every present entry holds a position e,
\* 0 <= e <= m - 2, such that the suffix of the pattern starting at e equals
\* the prefix of the pattern of the same length.
C8_EntryStartsBorder ==
  (gs_res.called /\ Len(S) >= 1) =>
    /\ gs_res.ok
    /\ Len(gs_res.val) = Len(S) + 1
    /\ \A j \in 0..Len(S) :
         LET e == At(gs_res.val, j)
         IN  e # NAN =>
               /\ 0 <= e /\ e <= Len(S) - 2
               /\ \A k \in 0..(Len(S) - e - 1) : At(S, e + k) = At(S, k)

\* C8 (amended): ... whose every present entry j holds a position e,
\* 0 <= e <= m - 2, such that the substring of length m - j that ends at e
\* lies within the pattern and equals the pattern's suffix starting at j.
C8_EntryEndsCopyOfSuffix ==
  (gs_res.called /\ Len(S) >= 1) =>
    /\ gs_res.ok
    /\ Len(gs_res.val) = Len(S) + 1
    /\ \A j \in 0..Len(S) :
         LET e == At(gs_res.val, j)
             len == Len(S) - j
         IN  e # NAN =>
               /\ 0 <= e /\ e <= Len(S) - 2
               /\ e - len + 1 >= 0
               /\ \A k \in 0..(len - 1) : At(S, e - len + 1 + k) = At(S, j + k)

\* C8 witness: good_suffix returned an array with a present entry for a
\* suffix of two or more symbols.
C8_Witness ==
  /\ gs_res.called /\ gs_res.ok
  /\ \E j \in 0..(Len(S) - 2) : At(gs_res.val, j) # NAN

\* C9: at the start of every alignment with a non-empty memo (start, stop),
\* 0 <= start, stop <= m - 1 and the pattern agrees with the aligned text at
\* every position start..stop; the pattern pointer never exceeds m and no
\* read of the pattern or the text is out of bounds.
C9_MemoSoundAndInBounds ==
  /\ (pc = "scan" /\ pattern_pointer = 0 /\ start # NAN) =>
       /\ 0 <= start
       /\ stop <= m - 1
       /\ \A k \in start..stop :
            At(pat, k) = At(text, search_index_on_text + k)
  /\ pattern_pointer <= m
  /\ err # "compare"

\* C10: no shift jumps over an occurrence: when an alignment at text index s
\* ends and the cursor moves left by shift_amt, the pattern occurs at none of
\* the skipped alignments s - 1, ..., s - shift_amt + 1.
C10_NoShiftSkipsOccurrence ==
  [][Shifted =>
       \A k \in 1..(shift_amt' - 1) :
         ~OccursAt(text, pat, search_index_on_text - k)]_vars

\* C10 witness: a shift of 2 or more has just moved the window onto an
\* occurrence of a pattern of two or more symbols.
C10_Witness ==
  /\ pc = "align"
  /\ m >= 2
  /\ shift_amt >= 2
  /\ OccursAt(text, pat, search_index_on_text - shift_amt)

====
